---- MODULE Spec2Model ----
(***************************************************************************)
(* Title/genre normalisation and local-network extraction pipeline of the  *)
(* Netflix dashboard, in its two adapters:                                 *)
(*   db   - db_NetflixAPI  (src/db_netflixapi.py, src/APIs/db_netflixapi.py)*)
(*   file - NetflixAPI     (src/netflixapi.py)                             *)
(*                                                                         *)
(* Python strings are sequences of one-character strings, so replace,      *)
(* strip, split and the substring test are computed, not assumed.          *)
(* A cell of a dataframe / a field of a document is a tagged value         *)
(* [kind, val]: kind "nan" (absent / None / NaN), "str", "num", or "list"  *)
(* (a Python list of strings, which create_sankey_plot of the file adapter *)
(* writes into the genres column).                                         *)
(***************************************************************************)
EXTENDS Integers, Sequences, FiniteSets, TLC

VARIABLES
    collection,   \* db adapter: the documents of the MongoDB collection
    data,         \* db adapter: self.data, the frame fetched at construction
    netflix,      \* file adapter: self.netflix, the frame read by load_net
    query,        \* arguments of the extract_local_network call of the running handler
    local,        \* the frame that call returned (filtered_local / local)
    op,           \* the last API operation
    ret,          \* what it returned, or what it raised
    rendered      \* the call of sk.make_sankey it made, if any

vars == <<collection, data, netflix, query, local, op, ret, rendered>>

-----------------------------------------------------------------------------
(* Bounds and input sets                                                   *)

MaxRows == 2          \* titles in the catalog
MaxLen == 4           \* length of the strings clean_genre is applied to
MaxTokens == 2        \* genres of a well-formed genre text

Alphabet == {"[", "]", "'", ",", " ", "a", "b"}
Whitespace == {" ", "\t", "\n"}

Types == {"MOVIE", "SHOW"}
Years == {2008, 2009}
MinRatings == {50, 60, 70}     \* the slider, in tenths: 5.0, 6.0, 7.0

NaN == [kind |-> "nan", val |-> <<>>]
NoScore == [kind |-> "nan", val |-> 0]
Str(s) == [kind |-> "str", val |-> s]
Num(n) == [kind |-> "num", val |-> n]
PyList(l) == [kind |-> "list", val |-> l]

IsStr(x) == x.kind = "str"

GenreA == <<"a">>
GenreB == <<"b">>

\* repr() of a Python list of strings, the text the catalog stores in genres
RECURSIVE PyReprItems(_)
PyReprItems(names) ==
    IF names = <<>> THEN <<>>
    ELSE <<"'">> \o Head(names) \o <<"'">>
         \o (IF Len(names) > 1 THEN <<",", " ">> ELSE <<>>)
         \o PyReprItems(Tail(names))

PyRepr(names) == <<"[">> \o PyReprItems(names) \o <<"]">>

TrailingComma == <<"[", "'", "a", "'", ",", "]">>

Scores == {NoScore, Num(60)}

Title(t, ty, y, sc, g) ==
    [title |-> t, type |-> ty, release_year |-> y, imdb_score |-> sc,
     genres |-> g, age_certification |-> "PG", runtime |-> 90,
     seasons |-> NoScore, description |-> "text"]

\* titles that vary the fields the filters read
FilterTitles ==
    {Title("T1", ty, y, sc, Str(PyRepr(<<GenreA, GenreB>>))) :
        ty \in Types, y \in Years, sc \in Scores}

\* titles that vary the genres field
GenreTitles ==
    {Title("T2", "MOVIE", 2008, Num(60), g) :
        g \in {NaN, Str(PyRepr(<<>>)), Str(PyRepr(<<GenreB>>)), Str(TrailingComma)}}

Titles == FilterTitles \cup GenreTitles

\* what the autocomplete may hold: the two titles and one of no row
SearchTitles == {"T1", "T2", "T3"}

Catalogs == UNION {[1..n -> Titles] : n \in 0..MaxRows}

SelNone == [kind |-> "none", val |-> <<>>]
Sel(l) == [kind |-> "list", val |-> l]
Selections == {SelNone, Sel(<<>>), Sel(<<GenreA>>), Sel(<<GenreB>>)}

\* truthiness that takes [] for a selection
TruthyUnlessNone(sel) == sel.kind = "list"

\* Python truthiness of selected_genres: None and [] are false
Truthy(sel) == sel.kind = "list" /\ sel.val # <<>>

-----------------------------------------------------------------------------
(* Python str operations                                                   *)

RECURSIVE Replace(_, _, _)
Replace(s, old, new) ==
    IF s = <<>> THEN <<>>
    ELSE (IF Head(s) = old THEN new ELSE <<Head(s)>>) \o Replace(Tail(s), old, new)

RECURSIVE LStrip(_)
LStrip(s) == IF s # <<>> /\ Head(s) \in Whitespace THEN LStrip(Tail(s)) ELSE s

RECURSIVE RStrip(_)
RStrip(s) ==
    IF s # <<>> /\ s[Len(s)] \in Whitespace THEN RStrip(SubSeq(s, 1, Len(s) - 1)) ELSE s

Strip(s) == RStrip(LStrip(s))

RECURSIVE Split(_, _)
Split(s, sep) ==
    IF \A i \in 1..Len(s) : s[i] # sep THEN <<s>>
    ELSE LET i == CHOOSE k \in 1..Len(s) :
                      s[k] = sep /\ \A j \in 1..(k - 1) : s[j] # sep
         IN  <<SubSeq(s, 1, i - 1)>> \o Split(SubSeq(s, i + 1, Len(s)), sep)

\* sub in s, for two str
Contains(s, sub) ==
    \E i \in 0..(Len(s) - Len(sub)) : SubSeq(s, i + 1, i + Len(sub)) = sub

Ord(c) ==
    CASE c = "\t" -> 9 [] c = "\n" -> 10 [] c = " " -> 32 [] c = "'" -> 39
      [] c = "," -> 44 [] c = "[" -> 91 [] c = "]" -> 93
      [] c = "a" -> 97 [] c = "b" -> 98

\* s < t, for two str
RECURSIVE StrLess(_, _)
StrLess(s, t) ==
    IF t = <<>> THEN FALSE
    ELSE IF s = <<>> THEN TRUE
    ELSE IF Head(s) # Head(t) THEN Ord(Head(s)) < Ord(Head(t))
    ELSE StrLess(Tail(s), Tail(t))

\* sorted(set) for a set of str
RECURSIVE SortedStrs(_)
SortedStrs(S) ==
    IF S = {} THEN <<>>
    ELSE LET m == CHOOSE x \in S : \A y \in S \ {x} : StrLess(x, y)
         IN  <<m>> \o SortedStrs(S \ {m})

\* sorted(set) for a set of int
RECURSIVE SortedInts(_)
SortedInts(S) ==
    IF S = {} THEN <<>>
    ELSE LET m == CHOOSE x \in S : \A y \in S : x <= y
         IN  <<m>> \o SortedInts(S \ {m})

Range(f) == {f[i] : i \in DOMAIN f}

RECURSIVE Flatten(_)
Flatten(ss) == IF ss = <<>> THEN <<>> ELSE Head(ss) \o Flatten(Tail(ss))

-----------------------------------------------------------------------------
(* Genre Normalizer                                                        *)

\* clean_genre without .strip()
clean_genre_unstripped(genre) ==
    IF IsStr(genre)
    THEN PyList(Split(Replace(Replace(Replace(genre.val, "[", <<>>),
                                      "]", <<>>), "'", <<>>), ","))
    ELSE genre

\* db_NetflixAPI.clean_genre: a str gives the list of its tokens, anything
\* else is returned as it is
clean_genre(genre) ==
    IF IsStr(genre)
    THEN PyList(Split(Strip(Replace(Replace(Replace(genre.val, "[", <<>>),
                                            "]", <<>>), "'", <<>>)), ","))
    ELSE genre

\* the clean_genre local to NetflixAPI.create_sankey_plot, applied to one
\* piece of the split text
file_clean_genre(genre) ==
    Strip(Replace(Replace(Replace(genre, "[", <<>>), "]", <<>>), "'", <<>>))

-----------------------------------------------------------------------------
(* Dataframes: the column names and the rows, in order                     *)

columns_to_display ==
    {"title", "type", "imdb_score", "release_year", "genres",
     "age_certification", "runtime", "seasons"}

Project(row) == [c \in columns_to_display |-> row[c]]

Frame(cols, rows) == [columns |-> cols, rows |-> rows]
NoFrame == [columns |-> {}, rows |-> <<>>]
Empty(df) == df.rows = <<>> \/ df.columns = {}

\* pd.DataFrame(list of documents): no document, no column
DataFrame(docs) ==
    IF docs = <<>> THEN NoFrame
    ELSE Frame(DOMAIN docs[1], docs)

MapRows(rows, F(_)) == [i \in 1..Len(rows) |-> F(rows[i])]

-----------------------------------------------------------------------------
(* Network Extractor                                                       *)

\* the $match stage with $gt in place of $gte
DbMatchStrictlyAbove(doc, release_year, min_rating, only_movies, only_tv) ==
    /\ doc.release_year = release_year
    /\ doc.imdb_score.kind = "num" /\ doc.imdb_score.val > min_rating
    /\ IF only_movies /\ ~only_tv THEN doc.type = "MOVIE"
       ELSE IF only_tv /\ ~only_movies THEN doc.type = "SHOW"
       ELSE IF ~only_movies /\ ~only_tv THEN doc.type \notin {"MOVIE", "SHOW"}
       ELSE TRUE

\* the $match stage built by db_NetflixAPI.extract_local_network
DbMatch(doc, release_year, min_rating, only_movies, only_tv) ==
    /\ doc.release_year = release_year
    /\ doc.imdb_score.kind = "num" /\ doc.imdb_score.val >= min_rating
    /\ IF only_movies /\ ~only_tv THEN doc.type = "MOVIE"
       ELSE IF only_tv /\ ~only_movies THEN doc.type = "SHOW"
       ELSE IF ~only_movies /\ ~only_tv THEN doc.type \notin {"MOVIE", "SHOW"}
       ELSE TRUE

DbExtractLocalNetwork(coll, release_year, min_rating, only_movies, only_tv) ==
    LET Match(doc) == DbMatch(doc, release_year, min_rating, only_movies, only_tv)
    IN  DataFrame(MapRows(SelectSeq(coll, Match), Project))

\* the boolean masks of NetflixAPI.extract_local_network, up to the type filters
FileMask(row, release_year, min_rating, only_movies, only_tv) ==
    /\ row.release_year = release_year
    /\ row.imdb_score.kind = "num" /\ row.imdb_score.val >= min_rating
    /\ (only_movies => row.type = "MOVIE")
    /\ (only_tv => row.type = "SHOW")

\* lambda x: any(genre in x for genre in selected_genres)
GenreMask(row, selected_genres) ==
    \E i \in 1..Len(selected_genres) : Contains(row.genres.val, selected_genres[i])

\* The result is [raised, frame].  With selected genres:
\*  - `genre in x` raises TypeError when x is NaN (a float);
\*  - on a frame without rows, Series.apply gives an empty object Series,
\*    which pandas does not take for a boolean mask but for a list of column
\*    labels: the frame loses all its columns.
FileExtractLocalNetwork(df, release_year, min_rating, only_movies, only_tv, selected_genres) ==
    LET Mask(row) == FileMask(row, release_year, min_rating, only_movies, only_tv)
        kept == SelectSeq(df.rows, Mask)
        Genre(row) == GenreMask(row, selected_genres.val)
    IN  IF ~Truthy(selected_genres)
        THEN [raised |-> "", frame |-> Frame(columns_to_display, MapRows(kept, Project))]
        ELSE IF kept = <<>>
        THEN [raised |-> "", frame |-> NoFrame]
        ELSE IF \E i \in 1..Len(kept) : ~IsStr(kept[i].genres)
        THEN [raised |-> "TypeError", frame |-> NoFrame]
        ELSE [raised |-> "",
              frame |-> Frame(columns_to_display, MapRows(SelectSeq(kept, Genre), Project))]

-----------------------------------------------------------------------------
(* Sankey Edge Builder                                                     *)

Edge(s, t) == [src |-> s, targ |-> t]

\* str(row['title']): the title of a document is a str already
ToStr(title) == title

NotCalled == [called |-> FALSE, edges |-> <<>>]
MakeSankey(df) == [called |-> TRUE, edges |-> df]

\* the inner loop of db_NetflixAPI.create_sankey_plot, for one row
DbRowEdges(row) ==
    LET genre_lst == IF IsStr(row.genres) THEN clean_genre(row.genres).val ELSE <<>>
    IN  [i \in 1..Len(genre_lst) |-> Edge(ToStr(row.title), genre_lst[i])]

\* genre_df before the selected genres are applied
DbGenreDf(sankey_data) == Flatten(MapRows(sankey_data.rows, DbRowEdges))

\* genre_df[genre_df['targ'].isin(selected_genres)]
IsIn(genre_df, selected_genres) ==
    LET Keep(e) == e.targ \in Range(selected_genres)
    IN  SelectSeq(genre_df, Keep)

\* db_NetflixAPI.create_sankey_plot: [ret, rendered]
DbCreateSankeyPlot(sankey_data, selected_genres) ==
    IF Empty(sankey_data) \/ DbGenreDf(sankey_data) = <<>>
    THEN [ret |-> [kind |-> "None"], rendered |-> NotCalled]
    ELSE LET genre_df == IF Truthy(selected_genres)
                         THEN IsIn(DbGenreDf(sankey_data), selected_genres.val)
                         ELSE DbGenreDf(sankey_data)
         IN  [ret |-> [kind |-> "fig"], rendered |-> MakeSankey(genre_df)]

\* data['genres'].apply(lambda x: [clean_genre(genre) for genre in x.split(',')]
\*                                if isinstance(x, str) else [])
FileGenresCell(x) ==
    IF IsStr(x) THEN PyList(MapRows(Split(x.val, ","), file_clean_genre))
    ELSE PyList(<<>>)

FileCleanRow(row) == [row EXCEPT !.genres = FileGenresCell(row.genres)]

\* explode('genres').dropna(subset=['genres']) and the renaming to src, targ,
\* for one row: a row with an empty list explodes to NaN and is dropped
FileRowEdges(row) ==
    [i \in 1..Len(row.genres.val) |-> Edge(row.title, row.genres.val[i])]

\* NetflixAPI.create_sankey_plot: [raised, data, ret, rendered]; data is the
\* frame it was given, as the assignment to data['genres'] leaves it
FileCreateSankeyPlot(df) ==
    IF "genres" \notin df.columns
    THEN [raised |-> "KeyError", data |-> df,
          ret |-> [kind |-> "raise"], rendered |-> NotCalled]
    ELSE LET cleaned == Frame(df.columns, MapRows(df.rows, FileCleanRow))
             sankey_data == Flatten(MapRows(cleaned.rows, FileRowEdges))
         IN  [raised |-> "", data |-> cleaned,
              ret |-> [kind |-> "fig"], rendered |-> MakeSankey(sankey_data)]

-----------------------------------------------------------------------------
(* Catalog Store Adapter                                                   *)

\* $unwind "$genres" then $group by it: the distinct genres values of the
\* documents that have one
DbGenreGroups(coll) ==
    {coll[i].genres : i \in {j \in DOMAIN coll : coll[j].genres.kind # "nan"}}

\* db_NetflixAPI.get_unique_genres: [raised, list]
DbGetUniqueGenres(coll) ==
    IF \E g \in DbGenreGroups(coll) : ~IsStr(g)
    THEN [raised |-> "TypeError", list |-> <<>>]
    ELSE [raised |-> "",
          list |-> SortedStrs(UNION {Range(clean_genre(g).val) : g \in DbGenreGroups(coll)})]

\* genre.strip().replace('[', '').replace(']', '').replace("'", "")
FileGenreToken(genre) ==
    Replace(Replace(Replace(Strip(genre), "[", <<>>), "]", <<>>), "'", <<>>)

\* NetflixAPI.get_unique_genres
FileGetUniqueGenres(df) ==
    LET dropna == {df.rows[i].genres : i \in {j \in DOMAIN df.rows : IsStr(df.rows[j].genres)}}
    IN  SortedStrs(UNION {{FileGenreToken(p) : p \in Range(Split(g.val, ","))} : g \in dropna})

\* get_years of both adapters
GetYears(rows) == SortedInts({rows[i].release_year : i \in DOMAIN rows})

-----------------------------------------------------------------------------
(* The session                                                             *)

AllColumns == columns_to_display \cup {"description"}

NoQuery ==
    [adapter |-> "none", release_year |-> 0, min_rating |-> 0,
     only_movies |-> FALSE, only_tv |-> FALSE, selected_genres |-> SelNone]

Query(a, y, r, om, ot, sel) ==
    [adapter |-> a, release_year |-> y, min_rating |-> r,
     only_movies |-> om, only_tv |-> ot, selected_genres |-> sel]

\* db_NetflixAPI() on the collection, NetflixAPI().load_net() on the same titles
Init ==
    /\ collection \in Catalogs
    /\ data = DataFrame(collection)
    /\ netflix = Frame(AllColumns, collection)
    /\ query = NoQuery
    /\ local = NoFrame
    /\ op = [name |-> "idle", adapter |-> "none", arg |-> SelNone]
    /\ ret = [kind |-> "idle"]
    /\ rendered = NotCalled

\* no callback of the dashboard is running
Idle == op.name = "idle"

\* api.extract_local_network of netflixexplorer_db.py (get_catalog, get_plot)
DbExtract(y, r, om, ot) ==
    /\ Idle
    /\ query' = Query("db", y, r, om, ot, SelNone)
    /\ local' = DbExtractLocalNetwork(collection, y, r, om, ot)
    /\ op' = [name |-> "extract_local_network", adapter |-> "db", arg |-> SelNone]
    /\ ret' = [kind |-> "frame"]
    /\ rendered' = NotCalled
    /\ UNCHANGED <<collection, data, netflix>>

\* api.extract_local_network of netflixexplorer.py (get_catalog, get_plot)
FileExtract(y, r, om, ot, sel) ==
    LET res == FileExtractLocalNetwork(netflix, y, r, om, ot, sel)
    IN  /\ Idle
        /\ query' = Query("file", y, r, om, ot, sel)
        /\ local' = res.frame
        /\ op' = [name |-> "extract_local_network", adapter |-> "file", arg |-> sel]
        /\ ret' = IF res.raised = "" THEN [kind |-> "frame"]
                  ELSE [kind |-> "raise", val |-> res.raised]
        /\ rendered' = NotCalled
        /\ UNCHANGED <<collection, data, netflix>>

\* self.netflix had extract_local_network return its own rows instead of
\* copies: the assignment to data['genres'] reaches the catalog
NetflixAssignedInPlace(df, given) ==
    LET Assign(row) == IF Project(row) \in Range(given.rows) THEN FileCleanRow(row) ELSE row
    IN  Frame(df.columns, MapRows(df.rows, Assign))

\* self.netflix after create_sankey_plot assigned to data['genres']: data is
\* the frame extract_local_network built from self.netflix.copy() by boolean
\* indexing and column selection, so the catalog keeps its cells
NetflixAfterSankey(df, given) == df

\* api.create_sankey_plot(filtered_local, w, h, selected_genres), db adapter
DbSankey(sel) ==
    /\ query.adapter = "db"
    /\ op.name = "extract_local_network"
    /\ LET res == DbCreateSankeyPlot(local, sel)
       IN  /\ ret' = res.ret
           /\ rendered' = res.rendered
    /\ op' = [name |-> "create_sankey_plot", adapter |-> "db", arg |-> sel]
    /\ UNCHANGED <<collection, data, netflix, query, local>>

\* api.create_sankey_plot(filtered_local, w, h), file adapter; not reached
\* when extract_local_network raised
FileSankey ==
    /\ query.adapter = "file"
    /\ op.name = "extract_local_network" /\ ret.kind = "frame"
    /\ LET res == FileCreateSankeyPlot(local)
       IN  /\ ret' = IF res.raised = "" THEN res.ret
                     ELSE [kind |-> "raise", val |-> res.raised]
           /\ rendered' = res.rendered
           /\ local' = res.data
    /\ netflix' = NetflixAfterSankey(netflix, local)
    /\ op' = [name |-> "create_sankey_plot", adapter |-> "file", arg |-> SelNone]
    /\ UNCHANGED <<collection, data, query>>

\* api.get_unique_genres(), db adapter
DbUniqueGenres ==
    LET res == DbGetUniqueGenres(collection)
    IN  /\ Idle
        /\ ret' = IF res.raised = "" THEN [kind |-> "list", val |-> res.list]
                  ELSE [kind |-> "raise", val |-> res.raised]
        /\ op' = [name |-> "get_unique_genres", adapter |-> "db", arg |-> SelNone]
        /\ query' = NoQuery
        /\ local' = NoFrame
        /\ rendered' = NotCalled
        /\ UNCHANGED <<collection, data, netflix>>

\* api.get_unique_genres(), file adapter
FileUniqueGenres ==
    /\ Idle
    /\ ret' = [kind |-> "list", val |-> FileGetUniqueGenres(netflix)]
    /\ op' = [name |-> "get_unique_genres", adapter |-> "file", arg |-> SelNone]
    /\ query' = NoQuery
    /\ local' = NoFrame
    /\ rendered' = NotCalled
    /\ UNCHANGED <<collection, data, netflix>>

\* api.get_years(), db adapter: collection.distinct('release_year'), sorted
DbYears ==
    /\ Idle
    /\ ret' = [kind |-> "list", val |-> GetYears(collection)]
    /\ op' = [name |-> "get_years", adapter |-> "db", arg |-> SelNone]
    /\ UNCHANGED <<collection, data, netflix, query, local, rendered>>

\* api.get_years(), file adapter: self.netflix['release_year'].unique(), sorted
FileYears ==
    /\ Idle
    /\ ret' = [kind |-> "list", val |-> GetYears(netflix.rows)]
    /\ op' = [name |-> "get_years", adapter |-> "file", arg |-> SelNone]
    /\ UNCHANGED <<collection, data, netflix, query, local, rendered>>

\* db_NetflixAPI.get_media_details: find_one gives the first document with
\* the title, or None
DbGetMediaDetails(coll, title) ==
    LET Titled(doc) == doc.title = title
        found == SelectSeq(coll, Titled)
    IN  IF found = <<>> THEN [kind |-> "None"]
        ELSE [kind |-> "Series", val |-> Head(found)]

\* NetflixAPI.get_movie_details: squeeze() makes a Series of a frame of one
\* row and leaves a frame of several rows a frame
FileGetMovieDetails(df, title) ==
    LET Titled(row) == row.title = title
        movie_details == SelectSeq(df.rows, Titled)
    IN  IF movie_details = <<>> THEN [kind |-> "None"]
        ELSE IF Len(movie_details) = 1 THEN [kind |-> "Series", val |-> movie_details[1]]
        ELSE [kind |-> "DataFrame", val |-> movie_details]

\* show_movie_details of netflixexplorer_db.py: api.get_media_details(title)
DbDetails(title) ==
    /\ Idle
    /\ ret' = DbGetMediaDetails(collection, title)
    /\ op' = [name |-> "get_media_details", adapter |-> "db", arg |-> title]
    /\ UNCHANGED <<collection, data, netflix, query, local, rendered>>

\* show_movie_details of netflixexplorer.py: api.get_movie_details(title)
FileDetails(title) ==
    /\ Idle
    /\ ret' = FileGetMovieDetails(netflix, title)
    /\ op' = [name |-> "get_movie_details", adapter |-> "file", arg |-> title]
    /\ UNCHANGED <<collection, data, netflix, query, local, rendered>>

\* the callback returns (get_catalog, get_plot, the widget declarations):
\* its frame is dropped, the dashboard waits for the next event
Return ==
    /\ ~Idle
    /\ query' = NoQuery
    /\ local' = NoFrame
    /\ op' = [name |-> "idle", adapter |-> "none", arg |-> SelNone]
    /\ ret' = [kind |-> "idle"]
    /\ rendered' = NotCalled
    /\ UNCHANGED <<collection, data, netflix>>

Next ==
    \/ \E y \in Years, r \in MinRatings, om \in BOOLEAN, ot \in BOOLEAN :
          DbExtract(y, r, om, ot)
    \/ \E y \in Years, r \in MinRatings, om \in BOOLEAN, ot \in BOOLEAN,
          sel \in Selections : FileExtract(y, r, om, ot, sel)
    \/ \E sel \in Selections : DbSankey(sel)
    \/ FileSankey
    \/ DbUniqueGenres
    \/ FileUniqueGenres
    \/ DbYears
    \/ FileYears
    \/ \E title \in SearchTitles : DbDetails(title)
    \/ \E title \in SearchTitles : FileDetails(title)
    \/ Return

Spec == Init /\ [][Next]_vars

-----------------------------------------------------------------------------
(* clean_genre on its own: the static method applied to one value          *)

DramaComedy ==
    <<"[", "'", "D", "r", "a", "m", "a", "'", ",", " ",
      "'", "C", "o", "m", "e", "d", "y", "'", "]">>

Strings == UNION {[1..n -> Alphabet] : n \in 0..MaxLen}

GenreValues ==
    {Str(s) : s \in Strings} \cup {Str(DramaComedy), NaN, PyList(<<GenreA, GenreB>>)}

InitClean ==
    /\ collection = <<>>
    /\ data = DataFrame(collection)
    /\ netflix = Frame(AllColumns, collection)
    /\ query = NoQuery
    /\ local = NoFrame
    /\ op = [name |-> "idle", adapter |-> "none", arg |-> SelNone]
    /\ ret = [kind |-> "idle"]
    /\ rendered = NotCalled

\* db_NetflixAPI.clean_genre(genre)
CleanGenre(genre) ==
    /\ Idle
    /\ op' = [name |-> "clean_genre", adapter |-> "db", arg |-> genre]
    /\ ret' = [kind |-> "value", val |-> clean_genre(genre)]
    /\ UNCHANGED <<collection, data, netflix, query, local, rendered>>

NextClean ==
    \/ \E genre \in GenreValues : CleanGenre(genre)
    \/ Return

SpecClean == InitClean /\ [][NextClean]_vars

-----------------------------------------------------------------------------
(* Properties                                                              *)

Extracted == op.name = "extract_local_network" /\ ret.kind = "frame"

\* the rows of the catalog of the given year, rated at least min_rating,
\* whose type is in types, with the display columns, in catalog order
Wanted(release_year, min_rating, types) ==
    LET Want(t) == /\ t.release_year = release_year
                   /\ t.imdb_score.kind = "num"
                   /\ t.imdb_score.val >= min_rating
                   /\ t.type \in types
    IN  MapRows(SelectSeq(collection, Want), Project)

\* C1: extract_local_network with only_movies = false and only_tv = false
\* returns no row, whatever the catalog, the year and the rating, in both
\* adapters.
C1_BothOffIsEmpty ==
    (Extracted /\ ~query.only_movies /\ ~query.only_tv) => local.rows = <<>>

\* C2: extract_local_network with only_movies = true and only_tv = true
\* applies no type filter: it returns every row of the year rated at least
\* min_rating, movies and shows, in both adapters.
C2_BothOnKeepsBothTypes ==
    (Extracted /\ query.only_movies /\ query.only_tv /\ ~Truthy(query.selected_genres))
        => local.rows = Wanted(query.release_year, query.min_rating, Types)

\* C3: with exactly one of only_movies, only_tv true, extract_local_network
\* returns exactly the catalog rows of that year (no range) whose score is
\* present and at least min_rating and whose type is MOVIE (only_movies) or
\* SHOW (only_tv): nothing else, nothing omitted.
C3_ExactlyOneFlag ==
    (Extracted /\ query.only_movies # query.only_tv /\ ~Truthy(query.selected_genres))
        => local.rows = Wanted(query.release_year, query.min_rating,
                               IF query.only_movies THEN {"MOVIE"} ELSE {"SHOW"})

\* C3 happens: only_movies alone, on a catalog with a MOVIE and a SHOW of the
\* year, both rated above the minimum, gives exactly the MOVIE row
C3_Witness ==
    /\ Extracted /\ query.only_movies /\ ~query.only_tv
    /\ query.release_year = 2008 /\ query.min_rating = 50
    /\ Len(collection) = 2
    /\ \A i \in 1..2 : collection[i].release_year = 2008 /\ collection[i].imdb_score = Num(60)
    /\ collection[1].type = "MOVIE" /\ collection[2].type = "SHOW"
    /\ local.rows = <<Project(collection[1])>>

\* C4: for the same catalog and the same arguments, the aggregation pipeline
\* of the db adapter and the dataframe filtering of the file adapter return
\* the same rows, for all four combinations of the flags.
C4_SameRowsEitherWay ==
    (Extracted /\ ~Truthy(query.selected_genres))
        => /\ local.rows = DbExtractLocalNetwork(collection, query.release_year,
                  query.min_rating, query.only_movies, query.only_tv).rows
           /\ local.rows = FileExtractLocalNetwork(netflix, query.release_year,
                  query.min_rating, query.only_movies, query.only_tv, SelNone).frame.rows

\* C5: create_sankey_plot never hands an empty edge list to the renderer: an
\* empty edge set, for want of rows or of edges left by the allow-list, is
\* answered by None without calling sk.make_sankey.
C5_NothingToRender ==
    (op.name = "create_sankey_plot" /\ ret.kind # "raise")
        => /\ rendered.called => rendered.edges # <<>>
           /\ ret.kind = "fig" <=> rendered.called

\* the allow-list of the plot: the db adapter passes it to create_sankey_plot,
\* the file adapter to extract_local_network
AllowList == IF op.adapter = "db" THEN op.arg ELSE query.selected_genres

\* the edges create_sankey_plot builds of the whole local network, the one
\* extracted without allow-list
NetworkEdges ==
    IF op.adapter = "db" THEN DbGenreDf(local)
    ELSE FileCreateSankeyPlot(FileExtractLocalNetwork(netflix, query.release_year,
             query.min_rating, query.only_movies, query.only_tv, SelNone).frame).rendered.edges

\* C6: with a non-empty allow-list, every edge handed to the renderer has its
\* targ in the list and every edge of the local network whose targ is in the
\* list is handed to it, in both adapters.
C6_AllowListFilters ==
    (op.name = "create_sankey_plot" /\ rendered.called /\ Truthy(AllowList))
        => /\ \A i \in DOMAIN rendered.edges :
                  rendered.edges[i].targ \in Range(AllowList.val)
           /\ \A i \in DOMAIN NetworkEdges :
                  NetworkEdges[i].targ \in Range(AllowList.val)
                      => NetworkEdges[i] \in Range(rendered.edges)


NameLists == UNION {[1..n -> {GenreA, GenreB}] : n \in 0..MaxTokens}

\* a genres cell holding the repr of a list of genre names
WellFormed(cell) == IsStr(cell) /\ \E names \in NameLists : PyRepr(names) = cell.val
NamesOf(cell) == CHOOSE names \in NameLists : PyRepr(names) = cell.val

\* the genre names of the rows titled t, row after row
NamesFor(rows, t) ==
    LET Names(row) == IF row.title = t THEN NamesOf(row.genres) ELSE <<>>
    IN  Flatten(MapRows(rows, Names))

\* the genres, trimmed, of the edges leaving t, in the order of the edge list
TargsFor(edges, t) ==
    LET From(e) == e.src = t
        Targ(e) == Strip(e.targ)
    IN  MapRows(SelectSeq(edges, From), Targ)

\* C7: without allow-list, create_sankey_plot emits for a title whose genres
\* are the well-formed text of k genre names exactly k edges from that title,
\* one per name, in the order of the names (none for an empty list).
C7_OneEdgePerToken ==
    [][(op'.name = "create_sankey_plot" /\ ret'.kind # "raise" /\ ~Truthy(AllowList'))
          => \A t \in {local.rows[i].title : i \in DOMAIN local.rows} :
                (\A i \in DOMAIN local.rows :
                     local.rows[i].title = t => WellFormed(local.rows[i].genres))
                    => TargsFor(rendered'.edges, t) = NamesFor(local.rows, t)]_vars

NotBracketOrQuote(c) == c \notin {"[", "]", "'"}

\* the tokens of a genres text: brackets and quotes removed, split at the
\* commas, each piece trimmed
NormalizedTokens(text) ==
    {Strip(piece) : piece \in Range(Split(SelectSeq(text, NotBracketOrQuote), ","))}

CatalogTokens ==
    UNION {NormalizedTokens(collection[i].genres.val) :
               i \in {j \in DOMAIN collection : IsStr(collection[j].genres)}}

\* C8: get_unique_genres returns, ascending and without duplicates, exactly
\* the normalized, trimmed genre tokens of the titles of the catalog; no two
\* returned tokens differ only by surrounding whitespace.
C8_UniqueGenres ==
    (op.name = "get_unique_genres" /\ ret.kind = "list")
        => /\ \A i \in 1..(Len(ret.val) - 1) : StrLess(ret.val[i], ret.val[i + 1])
           /\ Range(ret.val) = CatalogTokens
           /\ \A i, j \in DOMAIN ret.val : Strip(ret.val[i]) = Strip(ret.val[j]) => i = j

RECURSIVE Join(_, _)
Join(tokens, sep) ==
    IF Len(tokens) = 1 THEN tokens[1]
    ELSE tokens[1] \o <<sep>> \o Join(Tail(tokens), sep)

\* s without its leading and trailing whitespace: from its first to its last
\* character that is no whitespace
Trimmed(s) ==
    LET ink == {i \in 1..Len(s) : s[i] \notin Whitespace}
    IN  IF ink = {} THEN <<>>
        ELSE SubSeq(s, CHOOSE i \in ink : \A j \in ink : i <= j,
                       CHOOSE i \in ink : \A j \in ink : j <= i)

\* C9: clean_genre of a str is the text without its '[', ']' and "'",
\* trimmed as a whole, cut at every ',': the tokens hold no comma and, joined
\* by commas, give that text back; "['Drama', 'Comedy']" gives "Drama" and
\* " Comedy".  Anything that is no str is returned unchanged.
C9_CleanGenre ==
    op.name = "clean_genre"
        => IF IsStr(op.arg)
           THEN /\ ret.val.kind = "list"
                /\ Len(ret.val.val) >= 1
                /\ \A i \in DOMAIN ret.val.val : "," \notin Range(ret.val.val[i])
                /\ Join(ret.val.val, ",") = Trimmed(SelectSeq(op.arg.val, NotBracketOrQuote))
                /\ op.arg.val = DramaComedy
                       => ret.val.val = << <<"D", "r", "a", "m", "a">>,
                                           <<" ", "C", "o", "m", "e", "d", "y">> >>
           ELSE /\ ret.val.kind = op.arg.kind
                /\ ret.val.val = op.arg.val

\* C9 happens: clean_genre was applied to "['Drama', 'Comedy']" and gave two
\* tokens, the second with its leading blank
C9_Witness ==
    /\ op.name = "clean_genre"
    /\ IsStr(op.arg) /\ op.arg.val = DramaComedy
    /\ Len(ret.val.val) = 2
    /\ Head(ret.val.val[2]) = " "

\* the titles of the catalog all of whose rows have no genres text
NoGenreTitles ==
    {collection[i].title : i \in DOMAIN collection}
        \ {collection[i].title : i \in {j \in DOMAIN collection : IsStr(collection[j].genres)}}

\* C10: a title without a genres text gives no genre token and no edge, and
\* no operation raises on it: extract_local_network with or without selected
\* genres, get_unique_genres and create_sankey_plot return normally.
C10_MissingGenresAreHarmless ==
    /\ ~(ret.kind = "raise" /\ ret.val = "TypeError")
    /\ \A i \in DOMAIN rendered.edges : rendered.edges[i].src \notin NoGenreTitles
    /\ (op.name = "get_unique_genres" /\ ret.kind = "list" /\ CatalogTokens = {})
           => ret.val = <<>>


Details == op.name \in {"get_media_details", "get_movie_details"}

\* C11: get_media_details / get_movie_details returns None when no row has
\* the title, and otherwise the fields of one record, the first row with the
\* title, never several rows.
C11_FindByTitle ==
    Details
        => LET hits == {i \in DOMAIN collection : collection[i].title = op.arg}
           IN  IF hits = {} THEN ret.kind = "None"
               ELSE /\ ret.kind = "Series"
                    /\ ret.val = collection[CHOOSE i \in hits : \A j \in hits : i <= j]


\* two frames with the same columns and the same cells; the kinds of the
\* genres cells are compared before the cells
SameFrame(f, g) ==
    /\ f.columns = g.columns
    /\ Len(f.rows) = Len(g.rows)
    /\ \A i \in DOMAIN f.rows : f.rows[i].genres.kind = g.rows[i].genres.kind
    /\ f.rows = g.rows

\* C12: no query operation (get_years, get_unique_genres,
\* extract_local_network, get_movie_details / get_media_details,
\* create_sankey_plot), in any order, changes the catalog loaded at startup
\* or the store: same rows, same field values.
C12_CatalogIsReadOnly ==
    [][/\ collection' = collection
       /\ SameFrame(data', data)
       /\ SameFrame(netflix', netflix)]_vars

\* C12 happens: create_sankey_plot of the file adapter has written lists into
\* the genres of its frame, and the catalog still holds the genres text
C12_Witness ==
    /\ op.name = "create_sankey_plot" /\ op.adapter = "file"
    /\ local.rows # <<>>
    /\ \A i \in DOMAIN local.rows : local.rows[i].genres.kind = "list"
    /\ \E i \in DOMAIN local.rows : local.rows[i].genres.val # <<>>
    /\ \A i \in DOMAIN netflix.rows : IsStr(netflix.rows[i].genres)
    /\ SameFrame(netflix, Frame(AllColumns, collection))

\* C13: every genre token is a non-empty string: no edge handed to the
\* renderer has an empty targ and get_unique_genres never returns the empty
\* string, also for the genres text "[]" or one with a trailing comma.
C13_NoEmptyToken ==
    /\ \A i \in DOMAIN rendered.edges : rendered.edges[i].targ # <<>>
    /\ (op.name = "get_unique_genres" /\ ret.kind = "list") => <<>> \notin Range(ret.val)


\* the edge list a second create_sankey_plot would hand to the renderer, given
\* the frame as the first one left it and the same selected genres
BuiltAgain ==
    IF op.adapter = "db" THEN DbCreateSankeyPlot(local, op.arg).rendered
    ELSE FileCreateSankeyPlot(local).rendered

\* C14: create_sankey_plot does not mutate the local network it is given:
\* when it returns, every field of every row is as before, and building the
\* edges again from that local network gives the same edge list.
C14_LocalNetworkNotMutated ==
    [][/\ (op'.name = "create_sankey_plot" /\ ret'.kind # "raise")
           => SameFrame(local', local)
       /\ (op.name = "create_sankey_plot" /\ ret.kind # "raise")
           => BuiltAgain = rendered]_vars

NoAllowList == AllowList.kind = "none" \/ AllowList.val = <<>>

\* the title-to-genre edges of a row: one per piece of its genres text, freed
\* of brackets and quotes, cut at the commas, each piece trimmed
EdgesOfRow(row) ==
    IF IsStr(row.genres)
    THEN LET pieces == Split(SelectSeq(row.genres.val, NotBracketOrQuote), ",")
         IN  [i \in DOMAIN pieces |-> Edge(row.title, Strip(pieces[i]))]
    ELSE <<>>

AllEdges(df) == Flatten(MapRows(df.rows, EdgesOfRow))

TrimmedEdges(edges) ==
    LET Trim(e) == Edge(e.src, Strip(e.targ))
    IN  MapRows(edges, Trim)

\* C15: without allow-list (selected_genres None or [], the default of the
\* genre selector) create_sankey_plot applies no genre filter: the edges
\* handed to the renderer are all the title-to-genre edges of the local
\* network; an empty selection shows all genres, not none.
C15_EmptySelectionShowsAll ==
    [][(op'.name = "create_sankey_plot" /\ ret'.kind # "raise" /\ NoAllowList')
          => TrimmedEdges(rendered'.edges) = AllEdges(local)]_vars

\* C15 happens: the db adapter got selected_genres = [] and handed the
\* renderer edges to two different genres
C15_Witness ==
    /\ op.name = "create_sankey_plot" /\ op.adapter = "db"
    /\ op.arg.kind = "list" /\ op.arg.val = <<>>
    /\ rendered.called
    /\ \E i, j \in DOMAIN rendered.edges :
           Strip(rendered.edges[i].targ) = GenreA /\ Strip(rendered.edges[j].targ) = GenreB

====
